---- MODULE Spec2Model ----
(***************************************************************************)
(* xrectsel: interactive selection of a rectangular screen region          *)
(* (select_region) and the rendering of the selected region through a      *)
(* format template (print_region_attr), as one state machine that follows  *)
(* main() of src/xrectsel.c.                                               *)
(*                                                                         *)
(* Characters are one-character strings, C strings are sequences of them   *)
(* followed by NUL.  Signed values are integers; unsigned 32-bit values    *)
(* that can exceed 2^31 are pairs <<hi, lo>> of 16-bit limbs, so that the  *)
(* arithmetic of the C types is computed exactly within TLC's integers.    *)
(***************************************************************************)
EXTENDS Integers, Sequences, FiniteSets, TLC

VARIABLES
  pc,          \* position of the program
  argv,        \* command line arguments after the program name
  fmt,         \* main: const char *fmt
  tail,        \* bytes of memory after fmt's terminator that a read went to
  status,      \* select_region: result of XGrabPointer
  done,        \* select_region: done
  btn_pressed, \* select_region: btn_pressed
  x,           \* select_region: x
  y,           \* select_region: y
  width,       \* select_region: width
  height,      \* select_region: height
  start_x,     \* select_region: start_x
  start_y,     \* select_region: start_y
  ev,          \* select_region: the event XNextEvent delivered last
  lastMotion,  \* history: the last pointer-motion event since the last press
  lastPress,   \* history: the location of the last button-press
  cursor,      \* display: the font cursor is allocated
  sel_gc,      \* display: the graphics context is allocated
  grabbed,     \* display: the pointer grab is held
  nungrab,     \* display: number of XUngrabPointer calls
  drawn,       \* display: outlines toggled an odd number of times
  ndraw,       \* display: number of XDrawRectangle calls
  nflush,      \* display: number of XFlush calls
  nread,       \* display: number of XNextEvent calls
  synced,      \* display: XSync was called
  rr,          \* select_region: root region, read by XGetGeometry
  ret,         \* select_region: return value
  sr,          \* main: selected region
  s,           \* print_region_attr / read_uint_until: index of *s in fmt
  rounding,    \* print_region_attr: rounding
  value,       \* read_uint_until: value
  buf,         \* stdio: characters buffered for standard output
  out,         \* characters written to standard output
  errs,        \* diagnostics written to standard error
  exitcode     \* exit status of the process

vars == <<pc, argv, fmt, tail, status, done, btn_pressed, x, y, width, height,
          start_x, start_y, ev, lastMotion, lastPress, cursor, sel_gc, grabbed,
          nungrab, drawn, ndraw, nflush, nread, synced, rr, ret, sr, s, rounding,
          value, buf, out, errs, exitcode>>

selVars == <<status, done, btn_pressed, x, y, width, height, start_x, start_y,
             ev, lastMotion, lastPress, cursor, sel_gc, grabbed, nungrab,
             drawn, ndraw, nflush, nread, synced, rr, ret>>

dragVars == <<btn_pressed, x, y, width, height, start_x, start_y, lastMotion,
              lastPress>>

xVars == <<cursor, sel_gc, grabbed, nungrab, drawn, ndraw, nflush, synced>>

printVars == <<s, rounding, value, buf, tail>>

(***************************************************************************)
(* Bounds of the model.                                                    *)
(***************************************************************************)
\* pointer coordinates of events are 0..MaxCoord
MaxCoord == 1
\* number of events XNextEvent delivers in one run
MaxEvents == 4
\* largest root width and height XGetGeometry reports
MaxRoot == 3
\* length of the exhaustively enumerated format strings
MaxFmtLen == 3
\* number of digits of the enumerated rounding clauses
MaxDigits == 2
\* number of readable bytes after a format string's terminator
MaxTail == 1

(***************************************************************************)
(* Characters and strings.                                                 *)
(***************************************************************************)
NUL == "NUL"

DigitChars == <<"0", "1", "2", "3", "4", "5", "6", "7", "8", "9">>

IsDigit(c) == \E i \in 1..10 : DigitChars[i] = c

DigitVal(c) == (CHOOSE i \in 1..10 : DigitChars[i] = c) - 1

\* main, line 60: the default template "%wx%h+%x+%y\n"
DefaultFmt == <<"%", "w", "x", "%", "h", "+", "%", "x", "+", "%", "y", "\n">>

Min(a, b) == IF a < b THEN a ELSE b

Abs(a) == IF a < 0 THEN -a ELSE a

(***************************************************************************)
(* Arithmetic of the C types.  An int is an integer of -2^31 .. 2^31-1; an *)
(* unsigned int is a pair <<hi, lo>> of 16-bit limbs where the arithmetic  *)
(* can pass 2^31 (the usual arithmetic conversions turn an int operand     *)
(* into unsigned when the other operand is unsigned).                      *)
(***************************************************************************)
Half == 65536

\* conversion of an int (or of an unsigned value below 2^31) to unsigned int
ToU32(v) ==
  IF v >= 0
    THEN <<v \div Half, v % Half>>
    ELSE LET t == (v + 2147483647) + 1
         IN  <<32768 + (t \div Half), t % Half>>

\* conversion of an unsigned int to int (two's complement)
FromU32(u) ==
  IF u[1] < 32768
    THEN u[1] * Half + u[2]
    ELSE (u[1] - Half) * Half + u[2]

\* unsigned a - b, modulo 2^32
U32Sub(a, b) ==
  LET lo     == a[2] - b[2]
      borrow == IF lo < 0 THEN 1 ELSE 0
  IN  <<(a[1] - b[1] - borrow) % Half, lo % Half>>

\* unsigned u / r, for a divisor 0 < r < 2^15
U32Div(u, r) ==
  LET t == (u[1] % r) * Half + u[2]
  IN  <<u[1] \div r, t \div r>>

\* unsigned u * r, modulo 2^32, for a factor 0 <= r < 2^15
U32Mul(u, r) ==
  LET lo == u[2] * r
  IN  <<(u[1] * r + (lo \div Half)) % Half, lo % Half>>

(***************************************************************************)
(* select_region.                                                          *)
(***************************************************************************)
GrabSuccess == "GrabSuccess"

GrabStatuses == {GrabSuccess, "AlreadyGrabbed", "GrabFrozen"}

EXIT_SUCCESS == "EXIT_SUCCESS"

EXIT_FAILURE == "EXIT_FAILURE"

NoMotion == <<>>

NoPress == <<>>

NoEvent == [type |-> "None", x |-> 0, y |-> 0]

Unwritten == [written |-> FALSE]

Coords == 0..MaxCoord

\* what XGetGeometry can report of the root window
RootGeometries ==
  { [x |-> 0, y |-> 0, w |-> rw, h |-> MaxRoot - rw, b |-> rw % 2, d |-> 24] :
      rw \in {0, MaxRoot} }

\* XDrawRectangle with a GXinvert context: the outline is toggled
Outline(ox, oy, ow, oh) == <<ox, oy, ow, oh>>

XDrawRectangle(pixels, o) ==
  IF o \in pixels THEN pixels \ {o} ELSE pixels \cup {o}

\* the drag state of lines 176-179
DragState ==
  [btn_pressed |-> btn_pressed, x |-> x, y |-> y, width |-> width,
   height |-> height, start_x |-> start_x, start_y |-> start_y]

\* OnButtonPress with the anchor set by the first press only
OnButtonPressKeepAnchor(d, ex, ey) ==
  [d EXCEPT !.btn_pressed = TRUE, !.x = ex, !.y = ey,
            !.start_x = IF d.btn_pressed THEN d.start_x ELSE ex,
            !.start_y = IF d.btn_pressed THEN d.start_y ELSE ey,
            !.width = 0, !.height = 0]

\* OnButtonPress without the reset of width and height (line 206 left out)
OnButtonPressKeepSize(d, ex, ey) ==
  [d EXCEPT !.btn_pressed = TRUE, !.x = ex, !.start_x = ex,
            !.y = ey, !.start_y = ey]

\* case ButtonPress
OnButtonPress(d, ex, ey) ==
  [d EXCEPT !.btn_pressed = TRUE, !.x = ex, !.start_x = ex,
            !.y = ey, !.start_y = ey, !.width = 0, !.height = 0]

\* OnMotion without the else branches of lines 220-222 and 226-228
OnMotionOneWay(d, ex, ey) ==
  [d EXCEPT !.x      = IF ex > d.start_x THEN d.start_x ELSE ex,
            !.width  = IF ex > d.start_x THEN ex - d.start_x ELSE d.width,
            !.y      = IF ey > d.start_y THEN d.start_y ELSE ey,
            !.height = IF ey > d.start_y THEN ey - d.start_y ELSE d.height]

\* case MotionNotify with a button pressed: the new rectangle
OnMotion(d, ex, ey) ==
  [d EXCEPT !.x      = IF ex > d.start_x THEN d.start_x ELSE ex,
            !.width  = IF ex > d.start_x THEN ex - d.start_x ELSE d.start_x - ex,
            !.y      = IF ey > d.start_y THEN d.start_y ELSE ey,
            !.height = IF ey > d.start_y THEN ey - d.start_y ELSE d.start_y - ey]

\* AfterGrab without the test of line 189
AfterGrabUnchecked(st) == "loop"

\* where select_region goes after XGrabPointer returned st
AfterGrab(st) == IF st # GrabSuccess THEN "returned" ELSE "loop"

\* SelectedRegion with the right and bottom offsets taken from the root's
\* position in place of its size
SelectedRegionFromOrigin(g, rx, ry, rw, rh) ==
  [written |-> TRUE,
   x |-> rx, y |-> ry, w |-> rw, h |-> rh,
   X |-> FromU32(U32Sub(U32Sub(ToU32(g.x), ToU32(rx)), ToU32(rw))),
   Y |-> FromU32(U32Sub(U32Sub(ToU32(g.y), ToU32(ry)), ToU32(rh))),
   b |-> g.b, d |-> g.d]

\* SelectedRegion with the right and bottom offsets taken from the corner alone
SelectedRegionNoSize(g, rx, ry, rw, rh) ==
  [written |-> TRUE,
   x |-> rx, y |-> ry, w |-> rw, h |-> rh,
   X |-> FromU32(U32Sub(ToU32(g.w), ToU32(rx))),
   Y |-> FromU32(U32Sub(ToU32(g.h), ToU32(ry))),
   b |-> g.b, d |-> g.d]

\* the selected region, from the drag rectangle and the root geometry g
SelectedRegion(g, rx, ry, rw, rh) ==
  [written |-> TRUE,
   x |-> rx, y |-> ry, w |-> rw, h |-> rh,
   X |-> FromU32(U32Sub(U32Sub(ToU32(g.w), ToU32(rx)), ToU32(rw))),
   Y |-> FromU32(U32Sub(U32Sub(ToU32(g.h), ToU32(ry)), ToU32(rh))),
   b |-> g.b, d |-> g.d]

\* DrawsOnMotion without the test of line 210
DrawsOnMotionAlways(d) == TRUE

\* line 210: a motion is handled only if a button is pressed
DrawsOnMotion(d) == d.btn_pressed

\* LoopExit without the break of lines 241-242
LoopExitNever(d) == "loop"

\* lines 241-242: where the loop goes after an event, done being d
LoopExit(d) == IF d THEN "erase" ELSE "loop"

\* AfterErase without the XUngrabPointer call of line 249
AfterEraseNoUngrab == "free"

\* where select_region goes after the final erase of lines 245-247
AfterErase == "ungrab"

\* AfterFree without the XSync call of line 252
AfterFreeNoSync == "geometry"

\* where select_region goes after lines 250-251
AfterFree == "sync"

\* SelectFailed for a test of line 63 that never takes the branch
SelectFailedNever(r) == FALSE

\* SelectFailed for a test of line 63 with the comparison inverted
SelectFailedInverted(r) == r = EXIT_SUCCESS

\* main, line 63: select_region did not return EXIT_SUCCESS
SelectFailed(r) == r # EXIT_SUCCESS

SetDrag(d) ==
  /\ btn_pressed' = d.btn_pressed
  /\ x' = d.x
  /\ y' = d.y
  /\ width' = d.width
  /\ height' = d.height
  /\ start_x' = d.start_x
  /\ start_y' = d.start_y

\* exit(): the buffered output is written, the process ends with code
Exit(code) ==
  /\ pc' = "exited"
  /\ exitcode' = code
  /\ out' = out \o buf
  /\ buf' = <<>>

\* main, lines 53-60
OpenDisplay ==
  /\ pc = "open"
  /\ \/ /\ fmt' = IF Len(argv) > 0 THEN argv[1] ELSE DefaultFmt
        /\ pc' = "select"
        /\ UNCHANGED <<buf, out, errs, exitcode>>
     \/ /\ errs' = Append(errs, <<"failed to open display">>)
        /\ Exit(EXIT_FAILURE)
        /\ UNCHANGED fmt
  /\ UNCHANGED <<argv, tail, sr, s, rounding, value>>
  /\ UNCHANGED selVars

\* select_region, lines 181-197
GrabPointer ==
  /\ pc = "select"
  /\ \E st \in GrabStatuses :
       /\ status' = st
       /\ cursor' = TRUE
       /\ grabbed' = (st = GrabSuccess)
       /\ pc' = AfterGrab(st)
       /\ IF AfterGrab(st) = "returned"
            THEN /\ errs' = Append(errs, <<"failed to grab pointer">>)
                 /\ ret' = EXIT_FAILURE
                 /\ UNCHANGED sel_gc
            ELSE /\ sel_gc' = TRUE
                 /\ UNCHANGED <<errs, ret>>
  /\ UNCHANGED <<argv, fmt, tail, done, ev, lastMotion, lastPress, nungrab,
                 drawn, ndraw, nflush, nread, synced, rr, sr, s, rounding, value,
                 buf, out, exitcode>>
  /\ UNCHANGED <<btn_pressed, x, y, width, height, start_x, start_y>>

\* lines 199-243, case ButtonPress
ButtonPress ==
  /\ pc = "loop"
  /\ nread < MaxEvents
  /\ \E ex \in Coords, ey \in Coords :
       /\ ev' = [type |-> "ButtonPress", x |-> ex, y |-> ey]
       /\ SetDrag(OnButtonPress(DragState, ex, ey))
       /\ lastPress' = <<ex, ey>>
  /\ lastMotion' = NoMotion
  /\ nread' = nread + 1
  /\ pc' = LoopExit(done)
  /\ UNCHANGED <<argv, fmt, status, done, rr, ret, sr, buf, out, errs, exitcode>>
  /\ UNCHANGED xVars
  /\ UNCHANGED <<s, rounding, value, tail>>

\* lines 199-243, case MotionNotify
MotionNotify ==
  /\ pc = "loop"
  /\ nread < MaxEvents
  /\ \E ex \in Coords, ey \in Coords :
       /\ ev' = [type |-> "MotionNotify", x |-> ex, y |-> ey]
       /\ lastMotion' = <<ex, ey>>
       /\ IF DrawsOnMotion(DragState)
            THEN LET n == OnMotion(DragState, ex, ey)
                 IN  /\ SetDrag(n)
                     /\ drawn' = XDrawRectangle(
                                   XDrawRectangle(drawn, Outline(x, y, width, height)),
                                   Outline(n.x, n.y, n.width, n.height))
                     /\ ndraw' = ndraw + 2
                     /\ nflush' = nflush + 1
            ELSE UNCHANGED <<btn_pressed, x, y, width, height, start_x, start_y,
                             drawn, ndraw, nflush>>
  /\ nread' = nread + 1
  /\ pc' = LoopExit(done)
  /\ UNCHANGED <<argv, fmt, status, done, rr, ret, sr, buf, out, errs, exitcode,
                 cursor, sel_gc, grabbed, nungrab, synced, lastPress>>
  /\ UNCHANGED <<s, rounding, value, tail>>

\* lines 199-243, case ButtonRelease, and the break of line 242
ButtonRelease ==
  /\ pc = "loop"
  /\ nread < MaxEvents
  /\ \E ex \in Coords, ey \in Coords :
       ev' = [type |-> "ButtonRelease", x |-> ex, y |-> ey]
  /\ done' = TRUE
  /\ pc' = LoopExit(TRUE)
  /\ nread' = nread + 1
  /\ UNCHANGED <<argv, fmt, status, rr, ret, sr, buf, out, errs, exitcode>>
  /\ UNCHANGED dragVars
  /\ UNCHANGED xVars
  /\ UNCHANGED <<s, rounding, value, tail>>

\* lines 199-243, default
OtherEvent ==
  /\ pc = "loop"
  /\ nread < MaxEvents
  /\ ev' = [type |-> "Other", x |-> 0, y |-> 0]
  /\ nread' = nread + 1
  /\ pc' = LoopExit(done)
  /\ UNCHANGED <<argv, fmt, status, done, rr, ret, sr, buf, out, errs, exitcode>>
  /\ UNCHANGED dragVars
  /\ UNCHANGED xVars
  /\ UNCHANGED <<s, rounding, value, tail>>

\* lines 245-247
EraseFinal ==
  /\ pc = "erase"
  /\ drawn' = XDrawRectangle(drawn, Outline(x, y, width, height))
  /\ ndraw' = ndraw + 1
  /\ nflush' = nflush + 1
  /\ pc' = AfterErase
  /\ UNCHANGED <<argv, fmt, status, done, ev, nread, rr, ret, sr, buf, out,
                 errs, exitcode, cursor, sel_gc, grabbed, nungrab, synced>>
  /\ UNCHANGED dragVars
  /\ UNCHANGED <<s, rounding, value, tail>>

\* line 249
UngrabPointer ==
  /\ pc = "ungrab"
  /\ grabbed' = FALSE
  /\ nungrab' = nungrab + 1
  /\ pc' = "free"
  /\ UNCHANGED <<argv, fmt, status, done, ev, nread, rr, ret, sr, buf, out,
                 errs, exitcode, cursor, sel_gc, drawn, ndraw, nflush, synced>>
  /\ UNCHANGED dragVars
  /\ UNCHANGED <<s, rounding, value, tail>>

\* lines 250-251
FreeResources ==
  /\ pc = "free"
  /\ cursor' = FALSE
  /\ sel_gc' = FALSE
  /\ pc' = AfterFree
  /\ UNCHANGED <<argv, fmt, status, done, ev, nread, rr, ret, sr, buf, out,
                 errs, exitcode, grabbed, nungrab, drawn, ndraw, nflush, synced>>
  /\ UNCHANGED dragVars
  /\ UNCHANGED <<s, rounding, value, tail>>

\* line 252
Sync ==
  /\ pc = "sync"
  /\ synced' = TRUE
  /\ pc' = "geometry"
  /\ UNCHANGED <<argv, fmt, status, done, ev, nread, rr, ret, sr, buf, out,
                 errs, exitcode, cursor, sel_gc, grabbed, nungrab, drawn, ndraw,
                 nflush>>
  /\ UNCHANGED dragVars
  /\ UNCHANGED <<s, rounding, value, tail>>

\* lines 257-272
GetGeometry ==
  /\ pc = "geometry"
  /\ \/ /\ errs' = Append(errs, <<"failed to get root window geometry">>)
        /\ ret' = EXIT_FAILURE
        /\ UNCHANGED <<rr, sr>>
     \/ \E g \in RootGeometries :
          /\ rr' = g
          /\ sr' = SelectedRegion(g, x, y, width, height)
          /\ ret' = EXIT_SUCCESS
          /\ UNCHANGED errs
  /\ pc' = "returned"
  /\ UNCHANGED <<argv, fmt, status, done, ev, nread, buf, out, exitcode>>
  /\ UNCHANGED dragVars
  /\ UNCHANGED xVars
  /\ UNCHANGED <<s, rounding, value, tail>>

\* main, lines 63-68: the test of select_region's result; the locals of
\* select_region are gone once it has returned
AfterSelect ==
  /\ pc = "returned"
  /\ IF SelectFailed(ret)
       THEN /\ errs' = Append(errs, <<"failed to select a rectangular region">>)
            /\ Exit(EXIT_FAILURE)
            /\ UNCHANGED s
       ELSE /\ pc' = "for"
            /\ s' = 1
            /\ UNCHANGED <<errs, exitcode, out, buf>>
  /\ status' = "None"
  /\ done' = FALSE
  /\ btn_pressed' = FALSE
  /\ x' = 0
  /\ y' = 0
  /\ width' = 0
  /\ height' = 0
  /\ start_x' = 0
  /\ start_y' = 0
  /\ ev' = NoEvent
  /\ lastMotion' = NoMotion
  /\ lastPress' = NoPress
  /\ rr' = Unwritten
  /\ UNCHANGED <<argv, fmt, tail, sr, rounding, value, ret, nread>>
  /\ UNCHANGED xVars

(***************************************************************************)
(* print_region_attr, read_uint_until, round_and_printi, round_and_printu. *)
(***************************************************************************)
\* the character at index i of the memory that holds fmt
Mem(i) ==
  IF i <= Len(fmt) THEN fmt[i]
  ELSE IF i = Len(fmt) + 1 THEN NUL
  ELSE tail[i - Len(fmt) - 1]

\* the index the next step of the scan reads
ReadIdx == IF pc = "clause" THEN s + 1 ELSE s

\* the memory at index i is the string, its terminator, or a byte already read
Readable(i) == i <= Len(fmt) + 1 + Len(tail)

\* what a byte after the terminator can hold
TailBytes == {NUL, "%", "x"}

RECURSIVE Digits(_)
\* printf: the base-10 digits of n >= 0
Digits(n) ==
  IF n < 10 THEN <<DigitChars[n + 1]>>
  ELSE Digits(n \div 10) \o <<DigitChars[(n % 10) + 1]>>

\* printf("%u", v)
PrintfU(v) == Digits(v)

\* printf("%i", v)
PrintfI(v) == IF v < 0 THEN <<"-">> \o Digits(-v) ELSE Digits(v)

\* ROUND on an unsigned int value (below 2^31 in this model)
RoundU(v, r) == IF r > 0 THEN (v \div r) * r ELSE v

\* ROUND on an int value: the operands of / and * are converted to unsigned
RoundI(v, r) == IF r > 0 THEN FromU32(U32Mul(U32Div(ToU32(v), r), r)) ELSE v

round_and_printu(v, r) == PrintfU(RoundU(v, r))

round_and_printi(v, r) == PrintfI(RoundI(v, r))

\* ReadDigit without the multiplication of line 112
ReadDigitNoShift(v, c) == v + DigitVal(c)

\* read_uint_until, lines 110-113: one digit c is added to value
ReadDigit(v, c) == (IF v # 0 THEN v * 10 ELSE v) + DigitVal(c)

\* Directive with the cases 'w' and 'h' exchanged
DirectiveSwapped(c, region, r) ==
  CASE c = "%" -> <<"%">>
    [] c = "x" -> round_and_printi(region.x, r)
    [] c = "y" -> round_and_printi(region.y, r)
    [] c = "X" -> round_and_printi(region.X, r)
    [] c = "Y" -> round_and_printi(region.Y, r)
    [] c = "w" -> round_and_printu(region.h, r)
    [] c = "h" -> round_and_printu(region.w, r)
    [] c = "b" -> round_and_printu(region.b, r)
    [] c = "d" -> round_and_printu(region.d, r)
    [] OTHER   -> <<>>

\* Directive with a default case that echoes the character
DirectiveEcho(c, region, r) ==
  CASE c = "%" -> <<"%">>
    [] c = "x" -> round_and_printi(region.x, r)
    [] c = "y" -> round_and_printi(region.y, r)
    [] c = "X" -> round_and_printi(region.X, r)
    [] c = "Y" -> round_and_printi(region.Y, r)
    [] c = "w" -> round_and_printu(region.w, r)
    [] c = "h" -> round_and_printu(region.h, r)
    [] c = "b" -> round_and_printu(region.b, r)
    [] c = "d" -> round_and_printu(region.d, r)
    [] OTHER   -> <<c>>

\* the switch of lines 132-160: what selector c prints
Directive(c, region, r) ==
  CASE c = "%" -> <<"%">>
    [] c = "x" -> round_and_printi(region.x, r)
    [] c = "y" -> round_and_printi(region.y, r)
    [] c = "X" -> round_and_printi(region.X, r)
    [] c = "Y" -> round_and_printi(region.Y, r)
    [] c = "w" -> round_and_printu(region.w, r)
    [] c = "h" -> round_and_printu(region.h, r)
    [] c = "b" -> round_and_printu(region.b, r)
    [] c = "d" -> round_and_printu(region.d, r)
    [] OTHER   -> <<>>

\* line 124, *s is NUL: print_region_attr returns; main, lines 70-71
ScanEnd ==
  /\ pc = "for"
  /\ Readable(s)
  /\ Mem(s) = NUL
  /\ Exit(EXIT_SUCCESS)
  /\ UNCHANGED <<argv, fmt, tail, sr, s, rounding, value, errs>>
  /\ UNCHANGED selVars

\* lines 124-127, *s is '%'
ScanPercent ==
  /\ pc = "for"
  /\ Readable(s)
  /\ Mem(s) = "%"
  /\ rounding' = 0
  /\ s' = s + 1
  /\ pc' = "percent"
  /\ UNCHANGED <<argv, fmt, tail, sr, value, buf, out, errs, exitcode>>
  /\ UNCHANGED selVars

\* lines 124-126 and 161-163, *s is any other character
ScanLiteral ==
  /\ pc = "for"
  /\ Readable(s)
  /\ Mem(s) \notin {NUL, "%"}
  /\ rounding' = 0
  /\ buf' = Append(buf, Mem(s))
  /\ s' = s + 1
  /\ UNCHANGED <<pc, argv, fmt, tail, sr, value, out, errs, exitcode>>
  /\ UNCHANGED selVars

\* line 128, and the entry of read_uint_until, lines 102-103
Percent ==
  /\ pc = "percent"
  /\ Readable(s)
  /\ IF Mem(s) = "["
       THEN /\ pc' = "clause"
            /\ value' = 0
       ELSE /\ pc' = "switch"
            /\ UNCHANGED value
  /\ UNCHANGED <<argv, fmt, tail, sr, s, rounding, buf, out, errs, exitcode>>
  /\ UNCHANGED selVars

\* read_uint_until, lines 104-113: a digit
ClauseDigit ==
  /\ pc = "clause"
  /\ Readable(s + 1)
  /\ IsDigit(Mem(s + 1))
  /\ value' = ReadDigit(value, Mem(s + 1))
  /\ s' = s + 1
  /\ UNCHANGED <<pc, argv, fmt, tail, sr, rounding, buf, out, errs, exitcode>>
  /\ UNCHANGED selVars

\* read_uint_until, lines 104 and 115-116, and lines 129-130: the stop character
ClauseEnd ==
  /\ pc = "clause"
  /\ Readable(s + 1)
  /\ Mem(s + 1) = "]"
  /\ rounding' = value
  /\ s' = s + 2
  /\ pc' = "switch"
  /\ UNCHANGED <<argv, fmt, tail, sr, value, buf, out, errs, exitcode>>
  /\ UNCHANGED selVars

\* read_uint_until, lines 106-107: the end of the string
ClauseNoMatch ==
  /\ pc = "clause"
  /\ Readable(s + 1)
  /\ Mem(s + 1) = NUL
  /\ errs' = Append(errs, <<"No matching", "]">>)
  /\ Exit(EXIT_FAILURE)
  /\ UNCHANGED <<argv, fmt, tail, sr, s, rounding, value>>
  /\ UNCHANGED selVars

\* read_uint_until, lines 108-109: a character that is no digit
ClauseUnexpected ==
  /\ pc = "clause"
  /\ Readable(s + 1)
  /\ Mem(s + 1) # "]"
  /\ Mem(s + 1) # NUL
  /\ ~IsDigit(Mem(s + 1))
  /\ errs' = Append(errs, <<"Unexpected character", Mem(s + 1)>>)
  /\ Exit(EXIT_FAILURE)
  /\ UNCHANGED <<argv, fmt, tail, sr, s, rounding, value>>
  /\ UNCHANGED selVars

\* lines 132-160, and the ++s of line 124
Select ==
  /\ pc = "switch"
  /\ Readable(s)
  /\ buf' = buf \o Directive(Mem(s), sr, rounding)
  /\ s' = s + 1
  /\ pc' = "for"
  /\ UNCHANGED <<argv, fmt, tail, sr, rounding, value, out, errs, exitcode>>
  /\ UNCHANGED selVars

\* a read past the terminator finds a byte of whatever follows the string
ReadPastEnd ==
  /\ pc \in {"for", "percent", "clause", "switch"}
  /\ ~Readable(ReadIdx)
  /\ Len(tail) < MaxTail
  /\ \E c \in TailBytes : tail' = Append(tail, c)
  /\ UNCHANGED <<pc, argv, fmt, sr, s, rounding, value, buf, out, errs, exitcode>>
  /\ UNCHANGED selVars

\* a read past the terminator faults: the buffered output is lost
Fault ==
  /\ pc \in {"for", "percent", "clause", "switch"}
  /\ ~Readable(ReadIdx)
  /\ pc' = "crashed"
  /\ exitcode' = "SIGSEGV"
  /\ UNCHANGED <<argv, fmt, tail, sr, s, rounding, value, buf, out, errs>>
  /\ UNCHANGED selVars

(***************************************************************************)
(* Inputs.                                                                 *)
(***************************************************************************)
RECURSIVE SeqsUpTo(_, _)
\* the sequences over alphabet A of length at most n
SeqsUpTo(A, n) ==
  IF n = 0 THEN {<<>>}
  ELSE LET shorter == SeqsUpTo(A, n - 1)
       IN  shorter \cup {Append(q, c) : q \in shorter, c \in A}

Selectors == {"%", "x", "y", "X", "Y", "w", "h", "b", "d"}

RawAlphabet == {"%", "[", "]", "1", "a", "x"}

ClauseDigits == {"0", "1", "3"}

\* the rounding clauses [<digits>], and no clause
Clauses ==
  {<<>>} \cup {<<"[">> \o ds \o <<"]">> : ds \in SeqsUpTo(ClauseDigits, MaxDigits)}

\* one directive: % + optional clause + a selector or another character
Directives ==
  {<<"%">> \o c \o <<sel>> : c \in Clauses, sel \in Selectors \cup {"q", "["}}

\* the format strings print_region_attr is applied to
PrintFormats ==
  SeqsUpTo(RawAlphabet, MaxFmtLen)
    \cup Directives
    \cup {<<"a">> \o d : d \in Directives}
    \cup {d \o <<"%", sel, "a">> : d \in Directives, sel \in {"x", "w", "q"}}
    \cup {DefaultFmt}

\* the regions print_region_attr is applied to
RegionSet ==
  { [written |-> TRUE, x |-> vx, y |-> 20, X |-> 0 - vx, Y |-> 33,
     w |-> vw, h |-> 50, b |-> 1, d |-> 24] :
      vx \in {10, -47}, vw \in {100, 47} }

\* the command lines of the whole program: no argument, or one template
ArgvSet ==
  { <<>>,
    << <<"%", "[", "2", "]", "X", "%", "h">> >>,
    << <<"a", "%", "[", "1">> >>,
    << <<"%", "[", "x", "]">> >>,
    << <<"%", "w", "%">> >> }

(***************************************************************************)
(* The program.                                                            *)
(***************************************************************************)
InitSelect ==
  /\ status = "None"
  /\ done = FALSE
  /\ btn_pressed = FALSE
  /\ x = 0
  /\ y = 0
  /\ width = 0
  /\ height = 0
  /\ start_x = 0
  /\ start_y = 0
  /\ ev = NoEvent
  /\ lastMotion = NoMotion
  /\ lastPress = NoPress
  /\ cursor = FALSE
  /\ sel_gc = FALSE
  /\ grabbed = FALSE
  /\ nungrab = 0
  /\ drawn = {}
  /\ ndraw = 0
  /\ nflush = 0
  /\ nread = 0
  /\ synced = FALSE
  /\ rr = Unwritten

InitStdio ==
  /\ tail = <<>>
  /\ rounding = 0
  /\ value = 0
  /\ buf = <<>>
  /\ out = <<>>
  /\ errs = <<>>
  /\ exitcode = "None"

\* the process at the entry of main
Init ==
  /\ pc = "open"
  /\ argv \in ArgvSet
  /\ fmt = <<>>
  /\ sr = Unwritten
  /\ ret = "None"
  /\ s = 0
  /\ InitSelect
  /\ InitStdio

SelectNext ==
  \/ GrabPointer
  \/ ButtonPress
  \/ MotionNotify
  \/ ButtonRelease
  \/ OtherEvent
  \/ EraseFinal
  \/ UngrabPointer
  \/ FreeResources
  \/ Sync
  \/ GetGeometry

PrintNext ==
  \/ ScanEnd
  \/ ScanPercent
  \/ ScanLiteral
  \/ Percent
  \/ ClauseDigit
  \/ ClauseEnd
  \/ ClauseNoMatch
  \/ ClauseUnexpected
  \/ Select
  \/ ReadPastEnd
  \/ Fault

Next ==
  \/ OpenDisplay
  \/ SelectNext
  \/ AfterSelect
  \/ PrintNext

Spec == Init /\ [][Next]_vars

\* print_region_attr applied to a format string and a region
InitPrint ==
  /\ pc = "for"
  /\ fmt \in PrintFormats
  /\ argv = <<fmt>>
  /\ sr \in RegionSet
  /\ ret = EXIT_SUCCESS
  /\ s = 1
  /\ InitSelect
  /\ InitStdio

SpecPrint == InitPrint /\ [][PrintNext]_vars

(***************************************************************************)
(* Properties of select_region.                                            *)
(***************************************************************************)
\* select_region has returned after a button-release ended the loop
Released == pc = "returned" /\ done

\* select_region has returned success
Selected == pc = "returned" /\ ret = EXIT_SUCCESS

\* C1: when select_region returns after a button-release, every outline has
\* been toggled an even number of times: no outline is left visible.
C1_NoResidue == Released => drawn = {}

\* C2: the returned Region satisfies X = rootWidth - x - w and
\* Y = rootHeight - y - h, for the root geometry XGetGeometry reported.
C2_DerivedOffsets ==
  Selected =>
    /\ sr.X = rr.w - sr.x - sr.w
    /\ sr.Y = rr.h - sr.y - sr.h

\* C2 witness: a region with a positive size that reaches past the right edge
C2_Witness == Selected /\ sr.w > 0 /\ sr.h > 0 /\ sr.X < 0 /\ sr.Y > 0

\* the last event was a pointer motion processed while dragging
Dragged == pc = "loop" /\ ev.type = "MotionNotify" /\ btn_pressed

\* C3: after every pointer-motion event processed while dragging the drag
\* rectangle is normalized: its corner is the component-wise minimum of
\* anchor and pointer, its size the absolute difference, never negative.
C3_Normalized ==
  Dragged =>
    /\ x = Min(start_x, ev.x)
    /\ y = Min(start_y, ev.y)
    /\ width = Abs(ev.x - start_x)
    /\ height = Abs(ev.y - start_y)
    /\ width >= 0
    /\ height >= 0

\* C3 witness: a drag up-left from the anchor
C3_Witness ==
  Dragged /\ ev.x < start_x /\ ev.y < start_y /\ x = ev.x /\ width > 0 /\ height > 0

\* C4: when the grab does not return GrabSuccess, select_region returns
\* failure having read no event and issued no drawing call.
C4_GrabFailure ==
  status \notin {"None", GrabSuccess} =>
    /\ pc = "returned"
    /\ ret = EXIT_FAILURE
    /\ nread = 0
    /\ ndraw = 0
    /\ nflush = 0

\* C4 witness: the grab failed and select_region has returned
C4_Witness == status = "AlreadyGrabbed" /\ pc = "returned" /\ ret = EXIT_FAILURE

\* C5 as stated: a release at the position of the most recent press gives
\* w = 0 and h = 0, whatever motions were delivered in between.
C5_ZeroNetMovement ==
  (Selected /\ btn_pressed /\ ev.x = start_x /\ ev.y = start_y) =>
    (sr.w = 0 /\ sr.h = 0)

\* C5 amended: when no pointer-motion event was delivered since the most
\* recent press, or the last one delivered is at the press position, the
\* returned Region has w = 0 and h = 0.
C5_NoMotionSincePress ==
  (Selected /\ btn_pressed /\ lastMotion \in {NoMotion, <<start_x, start_y>>}) =>
    (sr.w = 0 /\ sr.h = 0)

\* C5 witness: the pointer left the press position and came back before the release
C5_Witness ==
  /\ Selected
  /\ btn_pressed
  /\ lastMotion = <<start_x, start_y>>
  /\ ndraw = 5
  /\ sr.w = 0
  /\ sr.h = 0

(***************************************************************************)
(* Properties of print_region_attr.                                        *)
(***************************************************************************)
SignedSelectors == {"x", "y", "X", "Y"}

UnsignedSelectors == {"w", "h", "b", "d"}

\* the field of region that selector c names
Field(region, c) ==
  CASE c = "x" -> region.x
    [] c = "y" -> region.y
    [] c = "X" -> region.X
    [] c = "Y" -> region.Y
    [] c = "w" -> region.w
    [] c = "h" -> region.h
    [] c = "b" -> region.b
    [] c = "d" -> region.d

RECURSIVE DecimalValue(_)
\* the decimal value of a sequence of digits, 0 for none
DecimalValue(ds) ==
  IF ds = <<>> THEN 0
  ELSE 10 * DecimalValue(SubSeq(ds, 1, Len(ds) - 1)) + DigitVal(ds[Len(ds)])

\* the rounding value of a clause: 0 without a clause
ClauseValue(c) == IF c = <<>> THEN 0 ELSE DecimalValue(SubSeq(c, 2, Len(c) - 1))

\* division truncating toward zero
TruncDiv(a, b) == IF a >= 0 THEN a \div b ELSE 0 - ((0 - a) \div b)

\* v rounded to a multiple of r with the division of v's own signedness
Rounded(v, r) == IF r = 0 THEN v ELSE TruncDiv(v, r) * r

\* the base-10 text of v, with a leading '-' when negative
Text(v) == IF v < 0 THEN <<"-">> \o Digits(0 - v) ELSE Digits(v)

\* print_region_attr returned and main ended
Rendered == pc = "exited" /\ exitcode = EXIT_SUCCESS

\* C6: a directive with rounding value r and field value v prints v when
\* r = 0 and (v / r) * r when r > 0, the division truncating with the
\* signedness of the field (toward zero for x, y, X, Y, also when negative).
C6_RoundingBySignedness ==
  \A c \in Clauses, sel \in SignedSelectors \cup UnsignedSelectors :
    (Rendered /\ fmt = <<"%">> \o c \o <<sel>>) =>
      out = Text(Rounded(Field(sr, sel), ClauseValue(c)))

\* C7: output is all-or-nothing: when rendering fails with a rounding-clause
\* syntax error, nothing at all has been written to standard output.
C7_AllOrNothing ==
  (pc = "exited" /\ exitcode = EXIT_FAILURE) => out = <<>>

RECURSIVE WellFormed(_)
\* literal characters and directives % + selector, without rounding clauses
WellFormed(f) ==
  IF f = <<>> THEN TRUE
  ELSE IF f[1] # "%" THEN WellFormed(Tail(f))
  ELSE Len(f) >= 2 /\ f[2] \in Selectors /\ WellFormed(SubSeq(f, 3, Len(f)))

RECURSIVE Rendering(_, _)
\* the text a well-formed format string stands for
Rendering(f, region) ==
  IF f = <<>> THEN <<>>
  ELSE IF f[1] # "%" THEN <<f[1]>> \o Rendering(Tail(f), region)
  ELSE (IF f[2] = "%" THEN <<"%">> ELSE Text(Field(region, f[2])))
         \o Rendering(SubSeq(f, 3, Len(f)), region)

\* C8: for a well-formed format string the output is the concatenation of
\* the literal characters, the base-10 text of the selected fields and '%'
\* for %%; the default template with w=100, h=50, x=10, y=20 gives
\* "100x50+10+20\n".
C8_Rendering ==
  /\ (pc \in {"exited", "crashed"} /\ WellFormed(fmt)) =>
       (Rendered /\ errs = <<>> /\ out = Rendering(fmt, sr))
  /\ (Rendered /\ fmt = DefaultFmt /\ sr.w = 100 /\ sr.h = 50 /\ sr.x = 10 /\ sr.y = 20) =>
       out = <<"1", "0", "0", "x", "5", "0", "+", "1", "0", "+", "2", "0", "\n">>

\* C8 witness: the default template rendered for w=100, h=50, x=10, y=20
C8_Witness ==
  /\ Rendered
  /\ fmt = DefaultFmt
  /\ sr.w = 100
  /\ sr.x = 10
  /\ out = <<"1", "0", "0", "x", "5", "0", "+", "1", "0", "+", "2", "0", "\n">>

RECURSIVE ClauseSyntax(_, _)
RECURSIVE Syntax(_, _)
\* what the claim says of a rounding clause scanned from index k of f
ClauseSyntax(f, k) ==
  IF k > Len(f) THEN <<"MalformedRounding">>
  ELSE IF f[k] = "]"
    THEN (IF k + 1 > Len(f) THEN <<"string ends after clause">> ELSE Syntax(f, k + 2))
  ELSE IF IsDigit(f[k]) THEN ClauseSyntax(f, k + 1)
  ELSE <<"InvalidDigit", f[k]>>

\* what the claim says of format string f scanned from index i
Syntax(f, i) ==
  IF i > Len(f) THEN <<"ok">>
  ELSE IF f[i] # "%" THEN Syntax(f, i + 1)
  ELSE IF i + 1 > Len(f) THEN <<"string ends after %">>
  ELSE IF f[i + 1] = "[" THEN ClauseSyntax(f, i + 2)
  ELSE Syntax(f, i + 2)

\* C9: a clause closed by ']' after digits only gives r their decimal value
\* (0 for none) and the selector is the character after ']'; the end of the
\* string first is the unterminated-clause error, another character first
\* the invalid-digit error; a directive without a clause has r = 0.
C9_RoundingClause ==
  /\ (pc = "switch" /\ s <= Len(fmt) + 1) =>
       \/ Mem(s - 1) = "%" /\ rounding = 0
       \/ /\ Mem(s - 1) = "]"
          /\ \E j \in 1..(s - 3) :
               /\ fmt[j] = "%"
               /\ fmt[j + 1] = "["
               /\ \A k \in (j + 2)..(s - 2) : IsDigit(fmt[k])
               /\ rounding = DecimalValue(SubSeq(fmt, j + 2, s - 2))
  /\ (pc \in {"exited", "crashed"} /\ Syntax(fmt, 1) = <<"ok">>) =>
       (Rendered /\ errs = <<>>)
  /\ (pc \in {"exited", "crashed"} /\ Syntax(fmt, 1) = <<"MalformedRounding">>) =>
       (exitcode = EXIT_FAILURE /\ errs = << <<"No matching", "]">> >>)
  /\ \A c \in {fmt[i] : i \in 1..Len(fmt)} :
       (pc \in {"exited", "crashed"} /\ Syntax(fmt, 1) = <<"InvalidDigit", c>>) =>
         (exitcode = EXIT_FAILURE /\ errs = << <<"Unexpected character", c>> >>)

\* C9 witness: a directive without a clause, dispatched with r = 0 after a
\* directive whose clause gave r = 13
C9_Witness ==
  /\ pc = "switch"
  /\ fmt = <<"%", "[", "1", "3", "]", "x", "%", "w", "a">>
  /\ s = 8
  /\ rounding = 0
  /\ buf # <<>>

\* C10: a selector character that is none of x, y, X, Y, w, h, b, d, %
\* prints nothing and is no error: it is consumed and the scan goes on with
\* the character after it.
C10_UnknownSelector ==
  [][(pc = "switch" /\ s <= Len(fmt) /\ Mem(s) \notin Selectors) =>
       /\ buf' = buf
       /\ out' = out
       /\ errs' = errs
       /\ exitcode' = exitcode
       /\ s' = s + 1
       /\ pc' = "for"]_vars

\* C10 witness: "%x%qa" rendered for x = 10: %q printed nothing, a followed
C10_Witness ==
  /\ Rendered
  /\ fmt = <<"%", "x", "%", "q", "a">>
  /\ sr.x = 10
  /\ out = <<"1", "0", "a">>

(***************************************************************************)
(* Properties of the whole program.                                        *)
(***************************************************************************)
\* print_region_attr is running
ScanPcs == {"for", "percent", "clause", "switch"}

\* select_region has returned and the grab had been acquired
ReturnedAfterGrab == pc = "returned" /\ status = GrabSuccess

\* C11: the Region is written at most once and only by a successful
\* selection; the renderer is entered at most once and only after
\* select_region returned success; when the grab or the geometry query
\* fails the renderer is never entered, nothing is written to standard
\* output and the process ends with a non-zero status.
C11_Lifecycle ==
  /\ [](/\ sr # Unwritten => ret = EXIT_SUCCESS
        /\ pc \in ScanPcs => (ret = EXIT_SUCCESS /\ sr # Unwritten)
        /\ ret = EXIT_FAILURE =>
             /\ pc \in {"returned", "exited"}
             /\ sr = Unwritten
             /\ buf = <<>>
             /\ out = <<>>
        /\ (ret = EXIT_FAILURE /\ pc = "exited") => exitcode = EXIT_FAILURE
        /\ (ret = EXIT_FAILURE /\ pc = "returned") => ENABLED AfterSelect)
  /\ [][/\ sr # Unwritten => sr' = sr
        /\ pc \in ScanPcs => pc' \in ScanPcs \cup {"exited", "crashed"}
        /\ (pc \notin ScanPcs /\ pc' \in ScanPcs) =>
             (pc = "returned" /\ ret = EXIT_SUCCESS /\ s' = 1)]_vars

\* C11 witness: the geometry query failed and the process has ended
C11_Witness ==
  /\ pc = "exited"
  /\ ret = EXIT_FAILURE
  /\ synced
  /\ exitcode = EXIT_FAILURE
  /\ out = <<>>
  /\ sr = Unwritten

\* C12: the grab is held during the whole event loop; once acquired it is
\* released exactly once before select_region returns, on the success path
\* and on the geometry-failure path; when it was not acquired no release is
\* attempted.
C12_GrabPairing ==
  /\ pc \in {"loop", "erase", "ungrab"} => (grabbed /\ nungrab = 0)
  /\ pc \in {"free", "sync", "geometry"} => (~grabbed /\ nungrab = 1)
  /\ ReturnedAfterGrab => (~grabbed /\ nungrab = 1)
  /\ status \notin {"None", GrabSuccess} => (~grabbed /\ nungrab = 0)
  /\ nungrab <= 1

\* C12 witness: the geometry query failed after the grab was released once
C12_Witness ==
  ReturnedAfterGrab /\ ret = EXIT_FAILURE /\ ~grabbed /\ nungrab = 1

\* the rectangle between corners p and m, normalized
Between(p, m) ==
  [x |-> Min(p[1], m[1]), y |-> Min(p[2], m[2]),
   w |-> Abs(m[1] - p[1]), h |-> Abs(m[2] - p[2])]

\* C13: a button-press sets position and anchor to the press location,
\* width and height to zero and dragging to true, also during a drag; the
\* returned x, y, w, h are the normalized rectangle between the most recent
\* press and the last motion delivered after it (the press location with
\* w = h = 0 when none followed).
C13_LastPressDefines ==
  /\ (pc = "loop" /\ ev.type = "ButtonPress") =>
       /\ btn_pressed
       /\ x = ev.x /\ y = ev.y
       /\ start_x = ev.x /\ start_y = ev.y
       /\ width = 0 /\ height = 0
       /\ lastPress = <<ev.x, ev.y>>
  /\ (Selected /\ lastPress # NoPress) =>
       LET m == IF lastMotion = NoMotion THEN lastPress ELSE lastMotion
           r == Between(lastPress, m)
       IN  sr.x = r.x /\ sr.y = r.y /\ sr.w = r.w /\ sr.h = r.h

\* C13 witness: a second press during a drag, then the release: the first
\* drag's outline was drawn, the region is the second press location
C13_Witness ==
  /\ Selected
  /\ ndraw = 3
  /\ lastPress = <<1, 1>>
  /\ lastMotion = NoMotion
  /\ sr.x = 1 /\ sr.y = 1 /\ sr.w = 0 /\ sr.h = 0
  /\ \E o \in drawn : o[1] = 0 /\ o[3] = 1

\* C14: when the grab cannot be acquired, select_region returns failure with
\* no resource it obtained (cursor, drawing context, grab) still allocated
\* or held.
C14_NoPartialState ==
  (pc = "returned" /\ status \notin {"None", GrabSuccess}) =>
    (~cursor /\ ~sel_gc /\ ~grabbed)

\* select_region is between the loop and the geometry query
CleanupPcs == {"erase", "ungrab", "free", "sync", "geometry"}

\* C15: the loop ends on the first button-release read, pressed before or
\* not, and on no other event; after the release select_region runs to its
\* return without blocking, and reads no further event.
C15_ReleaseEndsLoop ==
  /\ []((pc \in CleanupPcs \/ ReturnedAfterGrab) =>
          (done /\ ev.type = "ButtonRelease"))
  /\ [](pc \in CleanupPcs => ENABLED SelectNext)
  /\ [][(pc = "loop" /\ nread' # nread) =>
          /\ nread' = nread + 1
          /\ pc' \in {"loop", "erase"}
          /\ pc' = "erase" <=> ev'.type = "ButtonRelease"]_vars
  /\ [][pc # "loop" => nread' = nread]_vars

\* C15 witness: a press and a motion were read and did not end the loop; the
\* release, third event, did
C15_Witness ==
  /\ ReturnedAfterGrab
  /\ ev.type = "ButtonRelease"
  /\ nread = 3
  /\ lastPress # NoPress
  /\ lastMotion # NoMotion

\* C16: a pointer-motion event read while no press has occurred, and an
\* event that is no press, motion or release, leave the drag state
\* unchanged and issue no drawing call and no flush.
C16_IgnoredEvents ==
  [][(/\ pc = "loop"
      /\ nread' = nread + 1
      /\ \/ ev'.type = "MotionNotify" /\ lastPress = NoPress
         \/ ev'.type = "Other") =>
       UNCHANGED <<x, y, width, height, start_x, start_y, btn_pressed,
                   drawn, ndraw, nflush>>]_vars

\* C16 witness: a motion to (1, 1) was read before any press and left the
\* drag state as it was initialized
C16_Witness ==
  /\ pc = "loop"
  /\ ev = [type |-> "MotionNotify", x |-> 1, y |-> 1]
  /\ lastPress = NoPress
  /\ ~btn_pressed
  /\ x = 0 /\ y = 0 /\ width = 0 /\ height = 0
  /\ ndraw = 0 /\ nflush = 0

\* C17: after the loop: final erase, release of the grab, discard of cursor
\* and drawing context, XSync, and only then the geometry query; when the
\* query fails select_region returns failure and the caller's Region is
\* left unwritten.
C17_CleanupOrder ==
  /\ pc = "ungrab" =>
       (ndraw % 2 = 1 /\ grabbed /\ cursor /\ sel_gc /\ ~synced /\ rr = Unwritten)
  /\ pc = "free" =>
       (ndraw % 2 = 1 /\ nungrab = 1 /\ cursor /\ sel_gc /\ ~synced /\ rr = Unwritten)
  /\ pc = "sync" =>
       (nungrab = 1 /\ ~cursor /\ ~sel_gc /\ ~synced /\ rr = Unwritten)
  /\ pc = "geometry" => (synced /\ rr = Unwritten)
  /\ rr # Unwritten =>
       (synced /\ ~cursor /\ ~sel_gc /\ nungrab = 1 /\ ndraw % 2 = 1)
  /\ sr # Unwritten => synced
  /\ (pc = "returned" /\ ret = EXIT_FAILURE) => sr = Unwritten

\* C17 witness: the geometry query failed after a drag: synced, nothing read,
\* the caller's Region unwritten
C17_Witness ==
  /\ ReturnedAfterGrab
  /\ ret = EXIT_FAILURE
  /\ ndraw = 3
  /\ synced
  /\ rr = Unwritten
  /\ sr = Unwritten

\* C18: print_region_attr never reads a character at an index beyond the
\* terminating NUL of the format string.
C18_NoReadPastTerminator ==
  /\ tail = <<>>
  /\ pc # "crashed"
  /\ pc \in ScanPcs => ReadIdx <= Len(fmt) + 1

\* C19: a button-release read before any button-press ends the selection
\* like any other: select_region returns success when the geometry query
\* succeeds, with x = y = 0, w = h = 0, X = rootWidth, Y = rootHeight.
C19_ReleaseWithoutPress ==
  (ReturnedAfterGrab /\ lastPress = NoPress) =>
    /\ ret = EXIT_SUCCESS <=> rr # Unwritten
    /\ ret = EXIT_SUCCESS =>
         /\ sr.x = 0 /\ sr.y = 0
         /\ sr.w = 0 /\ sr.h = 0
         /\ sr.X = rr.w /\ sr.Y = rr.h

\* C19 witness: the release was the only event; a region was returned
C19_Witness ==
  /\ ReturnedAfterGrab
  /\ lastPress = NoPress
  /\ nread = 1
  /\ ret = EXIT_SUCCESS
  /\ sr.w = 0
  /\ sr.X = MaxRoot

\* a diagnostic of read_uint_until
IsSyntaxError(e) == e[1] \in {"No matching", "Unexpected character"}

\* the selection is over: events were read, the grab was released, XSync ran
SelectionOver ==
  ret = EXIT_SUCCESS /\ nread >= 1 /\ nungrab = 1 /\ ~grabbed /\ synced

\* C20: the template is examined only after select_region returned success:
\* a syntax error of the template is reported only after the grab was
\* acquired and released and a button-release ended the selection.
C20_TemplateAfterSelection ==
  /\ s # 0 => SelectionOver
  /\ (\E i \in 1..Len(errs) : IsSyntaxError(errs[i])) =>
       /\ SelectionOver
       /\ pc = "exited"
       /\ exitcode = EXIT_FAILURE
       /\ Len(errs) = 1

\* C20 witness: "a%[1" given as template: the unterminated clause is
\* reported after the selection
C20_Witness ==
  /\ pc = "exited"
  /\ fmt = <<"a", "%", "[", "1">>
  /\ errs = << <<"No matching", "]">> >>
  /\ nungrab = 1
  /\ exitcode = EXIT_FAILURE

====
